---- MODULE Spec2Model ----
(***************************************************************************)
(* SalesAnalysisSystem (main.py): the pipeline run() -- file choice, load, *)
(* clean, summary, four analyses, combined report, dashboard, export with  *)
(* the Excel -> CSV fallback -- and create_sample_data().                  *)
(*                                                                         *)
(* Units.  Money is an integer number of cents, a discount an integer      *)
(* number of tenths of a percent (155 is 15.5 %), a date the integer       *)
(* YYYYMMDD.  A raw numeric cell is a tagged value: a number, a numeric    *)
(* string, or null.  A raw text cell is a string, "" when missing.         *)
(*                                                                         *)
(* DataLoader, SalesAnalyzer and DataVisualizer are imported by main.py    *)
(* from data_loader.py, analyzer.py and visualizer.py; their operators     *)
(* below follow sections 4.1-4.4 of the design document.                   *)
(***************************************************************************)
EXTENDS Integers, Sequences, FiniteSets, TLC

\* ------------------------------------------------------------ bounds
\* Longest raw table (rows of the loaded file).
MaxRows == 2
\* Rows generated by create_sample_data (n_records of the program is 500).
NRecords == 2

\* ------------------------------------------------------------ raw cells
Num(n) == [k |-> "num", v |-> n]
NumStr(n) == [k |-> "str", v |-> n]
Null == [k |-> "null", v |-> 0]

RawRecord(pid, date, rep, region, cat, qty, cost, price, disc, amt) ==
    [Product_ID |-> pid, Sale_Date |-> date, Sales_Rep |-> rep, Region |-> region,
     Product_Category |-> cat, Quantity_Sold |-> qty, Unit_Cost |-> cost,
     Unit_Price |-> price, Discount |-> disc, Sales_Amount |-> amt]

\* The rows a raw file is made of: a valid row, a second row with the
\* same (product, date, rep) and another quantity and a stale amount, a row
\* whose quantity is a numeric string, a row with quantity -1 on the same
\* key, and an earlier row of another month sold at a loss.
RawRows ==
    { RawRecord("P001", 20230101, "Alice", "North", "Electronics",
                Num(2), Num(6000), Num(10000), Num(0), Num(20000)),
      RawRecord("P001", 20230101, "Alice", "North", "Electronics",
                Num(3), Num(6000), Num(10000), Num(0), Num(99)),
      RawRecord("P002", 20230102, "Bob", "South", "Food",
                NumStr(1), Num(3000), Num(5000), Num(100), Null),
      RawRecord("P002", 20230102, "Bob", "South", "Food",
                Num(-1), Num(3000), Num(5000), Num(100), Null),
      RawRecord("P003", 20221215, "Alice", "South", "Food",
                Num(1), Num(4000), Num(3333), Num(155), Num(2816)) }

RawRowSeqs == UNION { [1..n -> RawRows] : n \in 0..MaxRows }

\* A raw table: the rows in file order and whether the file has a
\* Unit_Cost column (without it no Profit column is derived).
RawTables == [hasCost : BOOLEAN, rows : RawRowSeqs]

\* ------------------------------------------------------------ arithmetic
\* x / d rounded to the nearest integer, halves to the even neighbour
\* (round(2) of Python and numpy), for x >= 0 and d > 0.
RoundDiv(x, d) ==
    LET q == x \div d
        r == x % d
    IN  IF 2 * r > d \/ (2 * r = d /\ q % 2 = 1) THEN q + 1 ELSE q

\* unit_price * quantity * (1 - discount_pct / 100), to 2 decimals.
SalesAmount(price, qty, disc) == RoundDiv(price * qty * (1000 - disc), 1000)

RECURSIVE SumColumn(_, _)
\* df[col].sum(): the sum of a column over the rows of a table.
SumColumn(rows, col) ==
    IF rows = <<>> THEN 0 ELSE Head(rows)[col] + SumColumn(Tail(rows), col)

\* ------------------------------------------------------------ 4.1 validator
\* A numeric cell: ACCEPT a number, COERCE a numeric string, REJECT null.
CellClass(c) ==
    CASE c.k = "num" -> "ACCEPT"
      [] c.k = "str" -> "COERCE"
      [] OTHER -> "REJECT"

\* The first reason a raw row is rejected for, "" when none.
RejectReason(r, hasCost) ==
    CASE r.Product_ID = "" \/ r.Sales_Rep = "" \/ r.Region = ""
           \/ r.Product_Category = "" \/ r.Sale_Date = 0 -> "missing_field"
      [] CellClass(r.Quantity_Sold) = "REJECT" \/ CellClass(r.Unit_Price) = "REJECT"
           \/ CellClass(r.Discount) = "REJECT"
           \/ (hasCost /\ CellClass(r.Unit_Cost) = "REJECT") -> "missing_field"
      [] r.Quantity_Sold.v <= 0 -> "invalid_quantity"
      [] r.Unit_Price.v < 0 -> "invalid_price"
      [] r.Discount.v < 0 \/ r.Discount.v >= 1000 -> "invalid_discount"
      [] hasCost /\ r.Unit_Cost.v < 0 -> "invalid_cost"
      [] OTHER -> ""

Classify(r, hasCost) ==
    IF RejectReason(r, hasCost) # "" THEN "REJECT"
    ELSE IF \/ CellClass(r.Quantity_Sold) = "COERCE"
            \/ CellClass(r.Unit_Price) = "COERCE"
            \/ CellClass(r.Discount) = "COERCE"
            \/ (hasCost /\ CellClass(r.Unit_Cost) = "COERCE")
         THEN "COERCE"
         ELSE "ACCEPT"

\* ------------------------------------------------------------ 4.2 cleaner
Triple(r) == <<r.Product_ID, r.Sale_Date, r.Sales_Rep>>

\* The raw rows with their file position (the table's index).
Indexed(rows) == [i \in 1..Len(rows) |-> [idx |-> i, raw |-> rows[i]]]

\* Step 1: the kept (accepted or coerced) rows, in file order.
Kept(t) ==
    LET ok(e) == Classify(e.raw, t.hasCost) # "REJECT"
    IN  SelectSeq(Indexed(t.rows), ok)

RECURSIVE DropDuplicatesKeepLast(_, _)
\* Variant: of the rows sharing a triple the last in file order stays.
DropDuplicatesKeepLast(s, seen) ==
    IF s = <<>> THEN <<>>
    ELSE IF \E i \in 2..Len(s) : Triple(s[i].raw) = Triple(Head(s).raw)
         THEN DropDuplicatesKeepLast(Tail(s), seen)
         ELSE <<Head(s)>> \o DropDuplicatesKeepLast(Tail(s), seen)

RECURSIVE DropDuplicates(_, _)
\* Step 2: of the rows sharing a triple the first in file order stays.
\* seen is the set of triples of the rows before s.
DropDuplicates(s, seen) ==
    IF s = <<>> THEN <<>>
    ELSE LET k == Triple(Head(s).raw)
         IN  IF k \in seen THEN DropDuplicates(Tail(s), seen)
             ELSE <<Head(s)>> \o DropDuplicates(Tail(s), seen \cup {k})

\* Step 3: the typed row with its derived fields; the recomputed amount
\* replaces the one of the file.
SalesRecord(e, hasCost) ==
    LET r == e.raw
        amt == SalesAmount(r.Unit_Price.v, r.Quantity_Sold.v, r.Discount.v)
        base == [Product_ID |-> r.Product_ID, Sale_Date |-> r.Sale_Date,
                 Sales_Rep |-> r.Sales_Rep, Region |-> r.Region,
                 Product_Category |-> r.Product_Category,
                 Quantity_Sold |-> r.Quantity_Sold.v,
                 Unit_Price |-> r.Unit_Price.v, Discount |-> r.Discount.v,
                 Sales_Amount |-> amt,
                 Region_and_Sales_Rep |-> r.Region \o "_" \o r.Sales_Rep]
    IN  IF hasCost
        THEN base @@ [Unit_Cost |-> r.Unit_Cost.v,
                      Profit |-> amt - r.Unit_Cost.v * r.Quantity_Sold.v]
        ELSE base

Derive(s, hasCost) == [i \in 1..Len(s) |-> SalesRecord(s[i], hasCost)]

RECURSIVE InsertByDate(_, _)
\* r put into the date-sorted s after the rows whose date is not later.
InsertByDate(r, s) ==
    IF s = <<>> THEN <<r>>
    ELSE IF Head(s).Sale_Date <= r.Sale_Date
         THEN <<Head(s)>> \o InsertByDate(r, Tail(s))
         ELSE <<r>> \o s

RECURSIVE SortByDate(_)
\* Step 4: ascending by sale date, ties in file order (a stable sort).
SortByDate(s) ==
    IF s = <<>> THEN <<>>
    ELSE InsertByDate(s[Len(s)], SortByDate(SubSeq(s, 1, Len(s) - 1)))

CleanRows(t) == SortByDate(Derive(DropDuplicates(Kept(t), {}), t.hasCost))

\* A row whose amount in the file differs from the recomputed one by more
\* than the tolerance of one cent.
Conflicts(e) ==
    LET r == e.raw
        amt == SalesAmount(r.Unit_Price.v, r.Quantity_Sold.v, r.Discount.v)
    IN  /\ r.Sales_Amount.k # "null"
        /\ (r.Sales_Amount.v - amt > 1 \/ amt - r.Sales_Amount.v > 1)

CleaningReport(t) ==
    LET all == Indexed(t.rows)
        acc(e) == Classify(e.raw, t.hasCost) = "ACCEPT"
        coe(e) == Classify(e.raw, t.hasCost) = "COERCE"
        rej(e) == Classify(e.raw, t.hasCost) = "REJECT"
        reasons == { RejectReason(all[i].raw, t.hasCost) : i \in 1..Len(all) } \ {""}
    IN  [accepted |-> Len(SelectSeq(all, acc)),
         coerced |-> Len(SelectSeq(all, coe)),
         rejected |-> Len(SelectSeq(all, rej)),
         rejected_by_reason |->
             [x \in reasons |->
                 LET is(e) == RejectReason(e.raw, t.hasCost) = x
                 IN  Len(SelectSeq(all, is))],
         duplicates_dropped |-> Len(Kept(t)) - Len(DropDuplicates(Kept(t), {})),
         conflicts |-> Len(SelectSeq(DropDuplicates(Kept(t), {}), Conflicts))]

\* ------------------------------------------------------------ tables
\* self.data: None, or a table with its column names and rows.
NoneData == [isNone |-> TRUE, columns |-> {}, rows |-> <<>>]

BaseColumns ==
    {"Product_ID", "Sale_Date", "Sales_Rep", "Region", "Product_Category",
     "Quantity_Sold", "Unit_Price", "Discount", "Sales_Amount",
     "Region_and_Sales_Rep"}

DataFrame(t) ==
    [isNone |-> FALSE,
     columns |-> IF t.hasCost THEN BaseColumns \cup {"Unit_Cost", "Profit"}
                 ELSE BaseColumns,
     rows |-> CleanRows(t)]

\* raw_data of run: None, or the table load_csv returned.
NoneTable == [isNone |-> TRUE, hasCost |-> FALSE, rows |-> <<>>]
Loaded(t) == [isNone |-> FALSE, hasCost |-> t.hasCost, rows |-> t.rows]

\* ------------------------------------------------------------ 4.3 summary
Month(r) == r.Sale_Date \div 100

\* The value a row is grouped by: a column, or the month of its date.
KeyOf(r, dim) == IF dim = "Month" THEN Month(r) ELSE r[dim]

\* The distinct values of a dimension.
Distinct(rows, dim) == { KeyOf(rows[i], dim) : i \in 1..Len(rows) }

SetMin(S) == CHOOSE a \in S : \A b \in S : a <= b
SetMax(S) == CHOOSE a \in S : \A b \in S : b <= a

GetSummary(d) ==
    [rows |-> Len(d.rows),
     products |-> Cardinality(Distinct(d.rows, "Product_ID")),
     date_min |-> IF d.rows = <<>> THEN 0 ELSE SetMin(Distinct(d.rows, "Sale_Date")),
     date_max |-> IF d.rows = <<>> THEN 0 ELSE SetMax(Distinct(d.rows, "Sale_Date")),
     regions |-> Cardinality(Distinct(d.rows, "Region")),
     categories |-> Cardinality(Distinct(d.rows, "Product_Category")),
     reps |-> Cardinality(Distinct(d.rows, "Sales_Rep")),
     total_revenue |-> SumColumn(d.rows, "Sales_Amount"),
     total_profit |-> IF "Profit" \in d.columns THEN SumColumn(d.rows, "Profit")
                      ELSE 0]

\* ------------------------------------------------------------ 4.4 aggregation
\* Variant: a group that holds only its first row.
GroupRowsFirstOnly(rows, dim, k) ==
    LET in(r) == KeyOf(r, dim) = k
    IN  SubSeq(SelectSeq(rows, in), 1, 1)

\* The rows of one group, in dataset order.
GroupRows(rows, dim, k) ==
    LET in(r) == KeyOf(r, dim) = k
    IN  SelectSeq(rows, in)

\* One row of an analysis table; total_revenue is the column the export
\* reads as Obshchaya_vyruchka.
Aggregate(d, dim, k) ==
    LET g == GroupRows(d.rows, dim, k)
        rev == SumColumn(g, "Sales_Amount")
    IN  [key |-> k,
         transaction_count |-> Len(g),
         total_quantity |-> SumColumn(g, "Quantity_Sold"),
         total_revenue |-> rev,
         total_profit |-> IF "Profit" \in d.columns THEN SumColumn(g, "Profit") ELSE 0,
         avg_order_value |-> RoundDiv(rev, Len(g))]

Groups(d, dim) == { Aggregate(d, dim, k) : k \in Distinct(d.rows, dim) }

\* The names of the model in alphabetical order.
AlphaOrder == <<"Alice", "Bob", "Clothing", "Electronics", "Food", "North", "South">>
AlphaRank(s) == CHOOSE i \in DOMAIN AlphaOrder : AlphaOrder[i] = s

\* Descending total revenue, equal revenues in alphabetical order of the key.
ByRevenue(a, b) ==
    \/ a.total_revenue > b.total_revenue
    \/ a.total_revenue = b.total_revenue /\ AlphaRank(a.key) < AlphaRank(b.key)

Chronological(a, b) == a.key < b.key

RECURSIVE SortByRevenue(_)
\* The groups of S from the largest revenue to the smallest.
SortByRevenue(S) ==
    IF S = {} THEN <<>>
    ELSE LET m == CHOOSE a \in S : \A b \in S \ {a} : ByRevenue(a, b)
         IN  <<m>> \o SortByRevenue(S \ {m})

RECURSIVE SortChronological(_)
\* The groups of S from the earliest month to the latest.
SortChronological(S) ==
    IF S = {} THEN <<>>
    ELSE LET m == CHOOSE a \in S : \A b \in S \ {a} : Chronological(a, b)
         IN  <<m>> \o SortChronological(S \ {m})

analyze_by_category(d) == SortByRevenue(Groups(d, "Product_Category"))
analyze_by_region(d) == SortByRevenue(Groups(d, "Region"))
analyze_sales_reps(d) == SortByRevenue(Groups(d, "Sales_Rep"))
analyze_sales_over_time(d) == SortChronological(Groups(d, "Month"))

\* The names of the combined report.  The export looks three of them up:
\* Analiz_po_kategoriyam, Analiz_po_regionam and Analiz_prodavtsov.
CategoryKey == "Analiz_po_kategoriyam"
RegionKey == "Analiz_po_regionam"
RepKey == "Analiz_prodavtsov"
TimeKey == "Analiz_po_vremeni"
ReportKeys == {CategoryKey, RegionKey, RepKey, TimeKey}

AnalysisOf(d, k) ==
    CASE k = CategoryKey -> analyze_by_category(d)
      [] k = RegionKey -> analyze_by_region(d)
      [] k = RepKey -> analyze_sales_reps(d)
      [] OTHER -> analyze_sales_over_time(d)

\* How a name stands in the combined report: its table, an empty table
\* (the dimension's column is missing), or not at all.
ReportShapes == [ReportKeys -> {"table", "empty", "absent"}]

get_comprehensive_report(d, shape) ==
    [k \in { n \in ReportKeys : shape[n] # "absent" } |->
        IF shape[k] = "empty" THEN <<>> ELSE AnalysisOf(d, k)]

\* ------------------------------------------------------------ strings
None == "<None>"

\* not x, for a path: None and the empty string are false.
Falsy(x) == x = None \/ x = ""

Char(s, i) == SubSeq(s, i, i)

RECURSIVE LStrip(_)
LStrip(s) ==
    IF Len(s) > 0 /\ Char(s, 1) = " " THEN LStrip(SubSeq(s, 2, Len(s))) ELSE s

RECURSIVE RStrip(_)
RStrip(s) ==
    IF Len(s) > 0 /\ Char(s, Len(s)) = " " THEN RStrip(SubSeq(s, 1, Len(s) - 1))
    ELSE s

\* str.strip()
Strip(s) == RStrip(LStrip(s))

DecimalDigits == {"0", "1", "2", "3", "4", "5", "6", "7", "8", "9"}
\* "^" stands for a character such as SUPERSCRIPT TWO, which str.isdigit()
\* accepts and int() rejects.
SuperscriptDigits == {"^"}

\* str.isdigit(): not empty and every character a digit.
IsDigit(s) ==
    /\ Len(s) > 0
    /\ \A i \in 1..Len(s) : Char(s, i) \in DecimalDigits \cup SuperscriptDigits

\* Whether int(s) returns, for a string that passed isdigit().
IntParses(s) == \A i \in 1..Len(s) : Char(s, i) \in DecimalDigits

DigitValue(c) ==
    CASE c = "0" -> 0 [] c = "1" -> 1 [] c = "2" -> 2 [] c = "3" -> 3
      [] c = "4" -> 4 [] c = "5" -> 5 [] c = "6" -> 6 [] c = "7" -> 7
      [] c = "8" -> 8 [] OTHER -> 9

RECURSIVE ToInt(_)
\* int(s) of a string of decimal digits.
ToInt(s) ==
    IF Len(s) = 0 THEN 0
    ELSE 10 * ToInt(SubSeq(s, 1, Len(s) - 1)) + DigitValue(Char(s, Len(s)))

\* f.endswith('.csv')
EndsWithCsv(f) == Len(f) >= 4 /\ SubSeq(f, Len(f) - 3, Len(f)) = ".csv"

\* ------------------------------------------------------------ get_file_path
\* The CSV files of the current directory, in listing order.
CsvFiles(listing) == SelectSeq(listing, EndsWithCsv)

\* Whether the first answer picks a listed file.
PicksListed(csv, choice) ==
    /\ IsDigit(Strip(choice))
    /\ 1 <= ToInt(Strip(choice))
    /\ ToInt(Strip(choice)) <= Len(csv)

\* Variant: the path entered taken without the test that it exists.
ManualPathUnchecked(entered, existing) ==
    IF Strip(entered) = "" THEN None ELSE Strip(entered)

\* The path entered by hand, or None for an empty or missing one.
ManualPath(entered, existing) ==
    IF Strip(entered) = "" THEN None
    ELSE IF Strip(entered) \notin existing THEN None
    ELSE Strip(entered)

\* get_file_path on a directory listing, the operator's answers and the
\* paths that exist: what it raises, what it returns, and whether it
\* asked for the choice and for the path.
get_file_path(listing, choice, entered, existing) ==
    LET csv == CsvFiles(listing)
    IN  IF csv # <<>> /\ IsDigit(Strip(choice)) /\ ~IntParses(Strip(choice))
        THEN [raised |-> "ValueError", value |-> None,
              asked_choice |-> TRUE, asked_path |-> FALSE]
        ELSE IF csv # <<>> /\ PicksListed(csv, choice)
        THEN [raised |-> "", value |-> csv[ToInt(Strip(choice))],
              asked_choice |-> TRUE, asked_path |-> FALSE]
        ELSE [raised |-> "", value |-> ManualPath(entered, existing),
              asked_choice |-> csv # <<>>, asked_path |-> TRUE]

\* The directory listings, answers and existing paths the operator meets.
Listings == { <<>>, <<"notes.txt">>, <<"a.csv">>, <<"notes.txt", "b.csv", "a.csv">> }
Choices == {"1", " 2 ", "0", "3", "02", "^", "", "a.csv"}
EnteredPaths == {"", "  ", " a.csv ", "nope.csv"}
ExistingPaths == {"a.csv", "b.csv", "notes.txt"}
\* The file_path arguments of run.
RunArgs == {None, "", "a.csv"}

\* ------------------------------------------------------------ export
\* Excel sheet names are cut to this length (sheet_name[:31]).
SheetNameLimit == 31
SheetName(name) ==
    SubSeq(name, 1, IF Len(name) < SheetNameLimit THEN Len(name) ELSE SheetNameLimit)

\* f"${x:,.2f}" of an amount of x cents: sign, dollars, cents.
Fmt2f(x) ==
    LET a == IF x < 0 THEN 0 - x ELSE x
    IN  [sign |-> IF x < 0 THEN "-" ELSE "", whole |-> a \div 100, frac |-> a % 100]

\* Variant: revenue taken before the discount.
TopLineGross(d) ==
    [total_sales |->
        SumColumn([i \in 1..Len(d.rows) |->
                      [gross |-> d.rows[i].Unit_Price * d.rows[i].Quantity_Sold]],
                  "gross"),
     total_profit |-> IF "Profit" \in d.columns THEN SumColumn(d.rows, "Profit") ELSE 0,
     transactions |-> Len(d.rows)]

\* The three top-line figures of the cleaned dataset.
TopLine(d) ==
    [total_sales |-> SumColumn(d.rows, "Sales_Amount"),
     total_profit |-> IF "Profit" \in d.columns THEN SumColumn(d.rows, "Profit") ELSE 0,
     transactions |-> Len(d.rows)]

\* The top-line rows of a summary: revenue, profit, transaction count.
TotalsRows(d) ==
    IF d.isNone THEN <<>>
    ELSE << [name |-> "total_revenue", value |-> <<>>,
             amount |-> <<Fmt2f(TopLine(d).total_sales)>>],
            [name |-> "total_profit", value |-> <<>>,
             amount |-> <<Fmt2f(TopLine(d).total_profit)>>],
            [name |-> "transactions", value |-> <<TopLine(d).transactions>>,
             amount |-> <<>>] >>

\* The names whose first table row the Excel summary shows.
SummaryKeys == <<CategoryKey, RegionKey, RepKey>>
TopLabel(k) ==
    CASE k = CategoryKey -> "top_category"
      [] k = RegionKey -> "top_region"
      [] OTHER -> "top_rep"

\* Variant: the three names looked up without the test that they are there.
TopRowsRaiseOnAbsent(analyses) ==
    IF \E i \in DOMAIN SummaryKeys : SummaryKeys[i] \notin DOMAIN analyses
    THEN "KeyError"
    ELSE IF \E i \in DOMAIN SummaryKeys : analyses[SummaryKeys[i]] = <<>>
    THEN "IndexError" ELSE ""

\* What building the best-of rows raises: .index[0] of an empty table is
\* an IndexError; a name not in the report is skipped.
TopRowsRaise(analyses) ==
    IF \E i \in DOMAIN SummaryKeys :
          SummaryKeys[i] \in DOMAIN analyses /\ analyses[SummaryKeys[i]] = <<>>
    THEN "IndexError" ELSE ""

RECURSIVE TopRows(_, _)
\* The best-of rows for the names SummaryKeys[i..] that are in the report.
TopRows(analyses, i) ==
    IF i > Len(SummaryKeys) THEN <<>>
    ELSE LET k == SummaryKeys[i]
         IN  IF k \in DOMAIN analyses
             THEN << [name |-> TopLabel(k), value |-> <<analyses[k][1].key>>,
                      amount |-> <<Fmt2f(analyses[k][1].total_revenue)>>] >>
                  \o TopRows(analyses, i + 1)
             ELSE TopRows(analyses, i + 1)

\* The tables an export writes: the non-empty ones.
NonEmptyTables(analyses) == { k \in DOMAIN analyses : analyses[k] # <<>> }

NotWritten == [written |-> FALSE, rows |-> <<>>]
CleanedOut(d) == IF d.isNone THEN NotWritten ELSE [written |-> TRUE, rows |-> d.rows]

\* The workbook: whether the file is on disk, the cleaned-data sheet, the
\* analysis sheets by sheet name, the summary sheet.
NoWorkbook == [on_disk |-> FALSE, cleaned |-> NotWritten, sheets |-> <<>>, summary |-> <<>>]

ExcelSheets(analyses) ==
    [n \in { SheetName(k) : k \in NonEmptyTables(analyses) } |->
        analyses[CHOOSE k \in NonEmptyTables(analyses) : SheetName(k) = n]]

ExcelFaults == {"none", "ImportError", "OSError_open", "OSError_save"}

\* The try block of export_results: what it raises and the workbook left.
\* The with statement closes, and so saves, the workbook also when its
\* body raises.
ExcelAttempt(d, analyses, fault) ==
    CASE fault = "ImportError" -> [raised |-> "ImportError", xlsx |-> NoWorkbook]
      [] fault = "OSError_open" -> [raised |-> "OSError", xlsx |-> NoWorkbook]
      [] OTHER ->
           LET body == [on_disk |-> TRUE, cleaned |-> CleanedOut(d),
                        sheets |-> ExcelSheets(analyses), summary |-> <<>>]
           IN  IF TopRowsRaise(analyses) # ""
               THEN [raised |-> TopRowsRaise(analyses), xlsx |-> body]
               ELSE IF fault = "OSError_save"
               THEN [raised |-> "OSError",
                     xlsx |-> [body EXCEPT !.on_disk = FALSE,
                                  !.summary = TopRows(analyses, 1) \o TotalsRows(d)]]
               ELSE [raised |-> "",
                     xlsx |-> [body EXCEPT
                                  !.summary = TopRows(analyses, 1) \o TotalsRows(d)]]

\* The CSV files: the cleaned data, one file per analysis name, the text
\* summary (its lines; empty while not written).
NoCsv == [cleaned |-> NotWritten, tables |-> <<>>, summary |-> <<>>, summary_written |-> FALSE]

CsvFaults == {"none", "OSError_first", "OSError_summary"}

\* export_to_csv over the files already there: what it raises and the
\* files left.  A file written again is overwritten.
export_to_csv(d, analyses, fault, before) ==
    LET tables == [k \in DOMAIN before.tables \cup NonEmptyTables(analyses) |->
                      IF k \in NonEmptyTables(analyses) THEN analyses[k]
                      ELSE before.tables[k]]
        files == [before EXCEPT
                    !.cleaned = IF d.isNone THEN before.cleaned ELSE CleanedOut(d),
                    !.tables = tables]
    IN  CASE fault = "OSError_first" -> [raised |-> "OSError", csv |-> before]
          [] fault = "OSError_summary" -> [raised |-> "OSError", csv |-> files]
          [] OTHER -> [raised |-> "",
                       csv |-> [files EXCEPT !.summary = TotalsRows(d),
                                             !.summary_written = TRUE]]

\* ------------------------------------------------------------ sample data
ZFillWidth == 4
StartDate == 20230101

RECURSIVE ZFill(_, _)
\* str.zfill(w)
ZFill(s, w) == IF Len(s) >= w THEN s ELSE ZFill("0" \o s, w)

LeapYear(y) == (y % 4 = 0 /\ y % 100 # 0) \/ y % 400 = 0
DaysInMonth(y, m) ==
    CASE m = 2 -> IF LeapYear(y) THEN 29 ELSE 28
      [] m \in {4, 6, 9, 11} -> 30
      [] OTHER -> 31

NextDay(date) ==
    LET y == date \div 10000
        m == (date \div 100) % 100
        d == date % 100
    IN  IF d < DaysInMonth(y, m) THEN date + 1
        ELSE IF m < 12 THEN y * 10000 + (m + 1) * 100 + 1
        ELSE (y + 1) * 10000 + 101

RECURSIVE DateRange(_, _)
\* The i-th day of pd.date_range(start, freq='D').
DateRange(start, i) == IF i <= 1 THEN start ELSE NextDay(DateRange(start, i - 1))

\* The random draws of one record: a subset of the values each
\* np.random call can give (costs in cents, the markup in thousandths).
SampleDraws ==
    [Sales_Rep : {"Alice", "Bob"}, Region : {"North", "South"},
     Quantity_Sold : {1, 50}, Product_Category : {"Electronics"},
     Unit_Cost : {5001}, Customer_Type : {"New"}, Discount : {0, 155, 300},
     Payment_Method : {"Cash"}, Sales_Channel : {"Online"}, Markup : {1555}]

\* (Unit_Cost * uniform(1.1, 2.0)).round(2)
SampleUnitPrice(cost, markup) == RoundDiv(cost * markup, 1000)

\* Variant: the discount taken as a fraction, 1 - Discount.
SampleSalesAmountNoPercent(price, qty, disc) ==
    RoundDiv(price * qty * (10 - disc), 10)

\* (Unit_Price * Quantity_Sold * (1 - Discount / 100)).round(2)
SampleSalesAmount(price, qty, disc) == RoundDiv(price * qty * (1000 - disc), 1000)

\* Record i of the generated table.
SampleRecord(i, w) ==
    LET price == SampleUnitPrice(w.Unit_Cost, w.Markup)
    IN  [Product_ID |-> "P" \o ZFill(ToString(i), ZFillWidth),
         Sale_Date |-> DateRange(StartDate, i),
         Sales_Rep |-> w.Sales_Rep, Region |-> w.Region,
         Quantity_Sold |-> w.Quantity_Sold,
         Product_Category |-> w.Product_Category,
         Unit_Cost |-> w.Unit_Cost, Customer_Type |-> w.Customer_Type,
         Discount |-> w.Discount, Payment_Method |-> w.Payment_Method,
         Sales_Channel |-> w.Sales_Channel,
         Unit_Price |-> price,
         Sales_Amount |-> SampleSalesAmount(price, w.Quantity_Sold, w.Discount),
         Region_and_Sales_Rep |-> w.Region \o "_" \o w.Sales_Rep]

\* ------------------------------------------------------------ state
VARIABLES
    pc,                   \* where the called method stands
    log,                  \* the calls made and messages printed, in order
    error,                \* the exception that left the method, "" for none
    file_path,            \* run: the path argument, then the chosen path
    csv_files,            \* get_file_path: the listed CSV files
    choice,               \* get_file_path: the first answer, stripped
    entered,              \* get_file_path: the path typed, stripped
    returned,             \* get_file_path: what it returned
    raw_data,             \* run: "None" or "DataFrame", what load_csv returned
    loader_table,         \* the loader's raw table until it is cleaned
    cleaning_report,      \* the loader's cleaning report
    data,                 \* self.data
    summary,              \* run: the summary shown
    category_analysis,    \* run: the four analyses
    region_analysis,
    rep_analysis,
    time_analysis,
    comprehensive_report, \* run: the combined report, name -> table
    dashboard,            \* what the visualizer was given
    xlsx,                 \* the Excel workbook of the export
    csv,                  \* the CSV and text files of the export
    csv_calls,            \* export_results: calls of export_to_csv so far
    excel_raised,         \* export_results: what the Excel attempt raised
    sample_df             \* create_sample_data: the table written

vars ==
    <<pc, log, error, file_path, csv_files, choice, entered, returned, raw_data,
      loader_table, cleaning_report, data, summary, category_analysis,
      region_analysis, rep_analysis, time_analysis, comprehensive_report,
      dashboard, xlsx, csv, csv_calls, excel_raised, sample_df>>

gfpVars == <<csv_files, choice, entered, returned>>
loadVars == <<raw_data, loader_table>>
cleanVars == <<cleaning_report, data>>
analysisVars ==
    <<summary, category_analysis, region_analysis, rep_analysis, time_analysis>>
reportVars == <<comprehensive_report, dashboard>>
exportVars == <<xlsx, csv, csv_calls, excel_raised>>

NoReport ==
    [accepted |-> 0, coerced |-> 0, rejected |-> 0, rejected_by_reason |-> <<>>,
     duplicates_dropped |-> 0, conflicts |-> 0]

\* The state after SalesAnalysisSystem().
Init ==
    /\ pc = "init"
    /\ log = <<>>
    /\ error = ""
    /\ file_path = None
    /\ csv_files = <<>>
    /\ choice = ""
    /\ entered = ""
    /\ returned = None
    /\ raw_data = "None"
    /\ loader_table = NoneTable
    /\ cleaning_report = NoReport
    /\ data = NoneData
    /\ summary = <<>>
    /\ category_analysis = <<>>
    /\ region_analysis = <<>>
    /\ rep_analysis = <<>>
    /\ time_analysis = <<>>
    /\ comprehensive_report = <<>>
    /\ dashboard = <<>>
    /\ xlsx = NoWorkbook
    /\ csv = NoCsv
    /\ csv_calls = 0
    /\ excel_raised = ""
    /\ sample_df = <<>>

\* ------------------------------------------------------------ run
\* Variant: the export placed before the dashboard.
RunOrderExportFirst ==
    <<"load_csv", "clean_data", "get_summary", "analyze_by_category",
      "analyze_by_region", "analyze_sales_reps", "analyze_sales_over_time",
      "get_comprehensive_report", "export_results", "create_dashboard",
      "success">>

\* The steps of run after the path is known, in the order of the code.
RunOrder ==
    <<"load_csv", "clean_data", "get_summary", "analyze_by_category",
      "analyze_by_region", "analyze_sales_reps", "analyze_sales_over_time",
      "get_comprehensive_report", "create_dashboard", "export_results",
      "success">>

StepIndex(p) == CHOOSE i \in DOMAIN RunOrder : RunOrder[i] = p
\* The step after step p.
StepAfter(p) == RunOrder[StepIndex(p) + 1]

\* run(file_path): the banner, and the path asked for when none is given.
Run ==
    /\ pc = "init"
    /\ \E arg \in RunArgs :
         /\ file_path' = arg
         /\ pc' = IF Falsy(arg) THEN "get_file_path" ELSE RunOrder[1]
    /\ log' = <<"run">>
    /\ UNCHANGED <<error, gfpVars, loadVars, cleanVars, analysisVars, reportVars,
                   exportVars, sample_df>>

\* get_file_path(): the listing, the operator's answers, the result.
GetFilePath ==
    /\ pc = "get_file_path"
    /\ \E listing \in Listings, c \in Choices, e \in EnteredPaths :
         LET r == get_file_path(listing, c, e, ExistingPaths)
         IN  /\ csv_files' = CsvFiles(listing)
             /\ choice' = IF r.asked_choice THEN Strip(c) ELSE ""
             /\ entered' = IF r.asked_path THEN Strip(e) ELSE ""
             /\ returned' = r.value
             /\ error' = r.raised
             /\ pc' = IF r.raised # "" THEN "done" ELSE "file_path_returned"
             /\ log' = log \o <<"get_file_path">>
    /\ UNCHANGED <<file_path, loadVars, cleanVars, analysisVars, reportVars,
                   exportVars, sample_df>>

\* run, lines 30-34: the path returned is taken, or the run ends.
FilePathReturned ==
    /\ pc = "file_path_returned"
    /\ file_path' = returned
    /\ csv_files' = <<>>
    /\ choice' = ""
    /\ entered' = ""
    /\ returned' = None
    /\ IF Falsy(returned)
       THEN pc' = "done" /\ log' = log \o <<"no_file_chosen">>
       ELSE pc' = RunOrder[1] /\ log' = log
    /\ UNCHANGED <<error, loadVars, cleanVars, analysisVars, reportVars,
                   exportVars, sample_df>>

\* Step 1: load_csv gives a table, or None and the run ends.
LoadCsv ==
    /\ pc = "load_csv"
    /\ \E t \in { Loaded(x) : x \in RawTables } \cup {NoneTable} :
         /\ loader_table' = t
         /\ raw_data' = IF t.isNone THEN "None" ELSE "DataFrame"
         /\ IF t.isNone
            THEN pc' = "done" /\ log' = log \o <<"load_csv", "load_failed">>
            ELSE pc' = StepAfter(pc) /\ log' = log \o <<"load_csv">>
    /\ UNCHANGED <<error, file_path, gfpVars, cleanVars, analysisVars, reportVars,
                   exportVars, sample_df>>

\* Variant: the test without .empty, which lets an empty dataset through.
NoDataAfterCleaningNoneOnly(d) == d.isNone

\* The test of line 50 on what clean_data returned.
NoDataAfterCleaning(d) == d.isNone \/ d.rows = <<>>

\* Step 2: clean_data.  With no row left the cleaner either raises
\* EmptyDatasetError (4.2, step 5) or hands back the empty table that
\* line 50 tests for.  The raw rows are gone once cleaned.
CleanData ==
    /\ pc = "clean_data"
    /\ \E onEmpty \in {"raise", "return"} :
         LET d == DataFrame(loader_table)
         IN  IF d.rows = <<>> /\ onEmpty = "raise"
             THEN /\ error' = "EmptyDatasetError"
                  /\ data' = data
                  /\ pc' = "done"
                  /\ log' = log \o <<"clean_data">>
             ELSE /\ error' = error
                  /\ data' = d
                  /\ IF NoDataAfterCleaning(d)
                     THEN /\ pc' = "done"
                          /\ log' = log \o <<"clean_data", "no_data_after_cleaning">>
                     ELSE /\ pc' = StepAfter(pc)
                          /\ log' = log \o <<"clean_data">>
    /\ cleaning_report' = CleaningReport(loader_table)
    /\ loader_table' = NoneTable
    /\ UNCHANGED <<file_path, gfpVars, raw_data, analysisVars, reportVars,
                   exportVars, sample_df>>

GetSummaryStep ==
    /\ pc = "get_summary"
    /\ summary' = <<GetSummary(data)>>
    /\ pc' = StepAfter(pc)
    /\ log' = log \o <<"get_summary">>
    /\ UNCHANGED <<error, file_path, gfpVars, loadVars, cleanVars, category_analysis,
                   region_analysis, rep_analysis, time_analysis, reportVars,
                   exportVars, sample_df>>

\* Step 3: the four analyses of SalesAnalyzer(self.data).
AnalyzeByCategory ==
    /\ pc = "analyze_by_category"
    /\ category_analysis' = analyze_by_category(data)
    /\ pc' = StepAfter(pc)
    /\ log' = log \o <<"analyze_by_category">>
    /\ UNCHANGED <<error, file_path, gfpVars, loadVars, cleanVars, summary,
                   region_analysis, rep_analysis, time_analysis, reportVars,
                   exportVars, sample_df>>

AnalyzeByRegion ==
    /\ pc = "analyze_by_region"
    /\ region_analysis' = analyze_by_region(data)
    /\ pc' = StepAfter(pc)
    /\ log' = log \o <<"analyze_by_region">>
    /\ UNCHANGED <<error, file_path, gfpVars, loadVars, cleanVars, summary,
                   category_analysis, rep_analysis, time_analysis, reportVars,
                   exportVars, sample_df>>

AnalyzeSalesReps ==
    /\ pc = "analyze_sales_reps"
    /\ rep_analysis' = analyze_sales_reps(data)
    /\ pc' = StepAfter(pc)
    /\ log' = log \o <<"analyze_sales_reps">>
    /\ UNCHANGED <<error, file_path, gfpVars, loadVars, cleanVars, summary,
                   category_analysis, region_analysis, time_analysis, reportVars,
                   exportVars, sample_df>>

AnalyzeSalesOverTime ==
    /\ pc = "analyze_sales_over_time"
    /\ time_analysis' = analyze_sales_over_time(data)
    /\ pc' = StepAfter(pc)
    /\ log' = log \o <<"analyze_sales_over_time">>
    /\ UNCHANGED <<error, file_path, gfpVars, loadVars, cleanVars, summary,
                   category_analysis, region_analysis, rep_analysis, reportVars,
                   exportVars, sample_df>>

\* Step 4: the combined report and the dashboard made from it.
GetComprehensiveReport ==
    /\ pc = "get_comprehensive_report"
    /\ \E shape \in ReportShapes :
         comprehensive_report' = get_comprehensive_report(data, shape)
    /\ pc' = StepAfter(pc)
    /\ log' = log \o <<"get_comprehensive_report">>
    /\ UNCHANGED <<error, file_path, gfpVars, loadVars, cleanVars, analysisVars,
                   dashboard, exportVars, sample_df>>

CreateDashboard ==
    /\ pc = "create_dashboard"
    /\ dashboard' = <<[names |-> DOMAIN comprehensive_report,
                       folder |-> "analysis_results"]>>
    /\ pc' = StepAfter(pc)
    /\ log' = log \o <<"create_dashboard">>
    /\ UNCHANGED <<error, file_path, gfpVars, loadVars, cleanVars, analysisVars,
                   comprehensive_report, exportVars, sample_df>>

\* ------------------------------------------------------------ export_results
\* Variant: an outer handler that reports the failure and writes nothing.
ExcelHandlerNoFallback(raised) ==
    IF raised = "ImportError" THEN "export_to_csv_inner" ELSE "success"

\* Where a raise of the Excel attempt is handled: ImportError by the inner
\* handler (line 182), anything else by the outer one (line 187).
ExcelHandler(raised) ==
    CASE raised = "" -> StepAfter("export_results")
      [] raised = "ImportError" -> "export_to_csv_inner"
      [] OTHER -> "export_to_csv_outer"

\* Where a raise of export_to_csv called by the inner handler goes: the
\* call stands inside the outer try, whose handler calls export_to_csv.
InnerCsvHandler(raised) ==
    IF raised = "" THEN StepAfter("export_results") ELSE "export_to_csv_outer"

\* Step 5, lines 137-180: the Excel attempt.
ExportResults ==
    /\ pc = "export_results"
    /\ \E fault \in ExcelFaults :
         LET r == ExcelAttempt(data, comprehensive_report, fault)
         IN  /\ xlsx' = r.xlsx
             /\ excel_raised' = r.raised
             /\ pc' = ExcelHandler(r.raised)
             /\ log' = log \o (IF ExcelHandler(r.raised) = StepAfter("export_results")
                               THEN <<"export_results", "export_results returned">>
                               ELSE <<"export_results">>)
    /\ UNCHANGED <<error, file_path, gfpVars, loadVars, cleanVars, analysisVars,
                   reportVars, csv, csv_calls, sample_df>>

\* Line 185: export_to_csv called by the ImportError handler.
ExportToCsvInner ==
    /\ pc = "export_to_csv_inner"
    /\ \E fault \in CsvFaults :
         LET r == export_to_csv(data, comprehensive_report, fault, csv)
         IN  /\ csv' = r.csv
             /\ pc' = InnerCsvHandler(r.raised)
             /\ log' = log \o (IF InnerCsvHandler(r.raised) = StepAfter("export_results")
                               THEN <<"export_to_csv", "export_results returned">>
                               ELSE <<"export_to_csv">>)
    /\ csv_calls' = csv_calls + 1
    /\ UNCHANGED <<error, file_path, gfpVars, loadVars, cleanVars, analysisVars,
                   reportVars, xlsx, excel_raised, sample_df>>

\* Line 191: export_to_csv called by the outer handler; what it raises
\* leaves export_results and run.
ExportToCsvOuter ==
    /\ pc = "export_to_csv_outer"
    /\ \E fault \in CsvFaults :
         LET r == export_to_csv(data, comprehensive_report, fault, csv)
         IN  /\ csv' = r.csv
             /\ error' = r.raised
             /\ pc' = IF r.raised = "" THEN StepAfter("export_results") ELSE "done"
             /\ log' = log \o (IF r.raised = ""
                               THEN <<"export_to_csv", "export_results returned">>
                               ELSE <<"export_to_csv">>)
    /\ csv_calls' = csv_calls + 1
    /\ UNCHANGED <<file_path, gfpVars, loadVars, cleanVars, analysisVars,
                   reportVars, xlsx, excel_raised, sample_df>>

\* Lines 99-101: the closing banner.
Success ==
    /\ pc = "success"
    /\ pc' = "done"
    /\ log' = log \o <<"success">>
    /\ UNCHANGED <<error, file_path, gfpVars, loadVars, cleanVars, analysisVars,
                   reportVars, exportVars, sample_df>>

\* ------------------------------------------------------------ create_sample_data
CreateSampleData ==
    /\ pc = "init"
    /\ \E draws \in [1..NRecords -> SampleDraws] :
         sample_df' = [i \in 1..NRecords |-> SampleRecord(i, draws[i])]
    /\ pc' = "done"
    /\ log' = <<"create_sample_data">>
    /\ UNCHANGED <<error, file_path, gfpVars, loadVars, cleanVars, analysisVars,
                   reportVars, exportVars>>

Next ==
    \/ Run
    \/ GetFilePath
    \/ FilePathReturned
    \/ LoadCsv
    \/ CleanData
    \/ GetSummaryStep
    \/ AnalyzeByCategory
    \/ AnalyzeByRegion
    \/ AnalyzeSalesReps
    \/ AnalyzeSalesOverTime
    \/ GetComprehensiveReport
    \/ CreateDashboard
    \/ ExportResults
    \/ ExportToCsvInner
    \/ ExportToCsvOuter
    \/ Success
    \/ CreateSampleData

Spec == Init /\ [][Next]_vars

\* ------------------------------------------------------------ properties
InLog(e) == \E i \in DOMAIN log : log[i] = e

RECURSIVE ColSum(_, _)
\* The total of column col over the rows of a table.
ColSum(s, col) ==
    IF Len(s) = 0 THEN 0
    ELSE ColSum(SubSeq(s, 1, Len(s) - 1), col) + s[Len(s)][col]

\* Nothing was analysed, drawn or exported.
NoResults ==
    /\ summary = <<>>
    /\ category_analysis = <<>> /\ region_analysis = <<>>
    /\ rep_analysis = <<>> /\ time_analysis = <<>>
    /\ comprehensive_report = <<>>
    /\ dashboard = <<>>
    /\ xlsx = NoWorkbook /\ csv = NoCsv /\ csv_calls = 0
    /\ ~InLog("get_summary") /\ ~InLog("analyze_by_category")
    /\ ~InLog("create_dashboard") /\ ~InLog("export_results")

\* The rows the cleaning report says are left.
Survivors ==
    cleaning_report.accepted + cleaning_report.coerced
        - cleaning_report.duplicates_dropped

NothingSurvived == InLog("clean_data") /\ Survivors = 0

WrittenByExcel ==
    /\ excel_raised = ""
    /\ xlsx.on_disk
    /\ xlsx.cleaned = [written |-> TRUE, rows |-> data.rows]
    /\ \A k \in DOMAIN comprehensive_report :
         comprehensive_report[k] # <<>> =>
            /\ SheetName(k) \in DOMAIN xlsx.sheets
            /\ xlsx.sheets[SheetName(k)] = comprehensive_report[k]

\* The same in the CSV files, with the text summary.
WrittenByCsv ==
    /\ csv.cleaned = [written |-> TRUE, rows |-> data.rows]
    /\ \A k \in DOMAIN comprehensive_report :
         comprehensive_report[k] # <<>> =>
            /\ k \in DOMAIN csv.tables
            /\ csv.tables[k] = comprehensive_report[k]
    /\ csv.summary_written

\* C2: once the Excel attempt of export_results has raised (ImportError or
\* anything else) and its handler has run, export_to_csv has been called;
\* and whenever export_results returns normally the cleaned data and every
\* non-empty analysis table were written in full by the Excel writer or by
\* export_to_csv.
C2_FallbackWritesEverything ==
    /\ (excel_raised # "" /\ pc \notin {"export_to_csv_inner", "export_to_csv_outer"})
          => csv_calls >= 1
    /\ InLog("export_results returned") => (WrittenByExcel \/ WrittenByCsv)

\* The workbook could not be written and the CSV files took its place.
C2_Witness ==
    /\ InLog("export_results returned")
    /\ excel_raised = "OSError"
    /\ csv_calls = 1
    /\ WrittenByCsv
    /\ \E k \in DOMAIN comprehensive_report : comprehensive_report[k] # <<>>

\* The steps of run in the order claimed.
ClaimedOrder ==
    <<"load_csv", "clean_data", "get_summary", "analyze_by_category",
      "analyze_by_region", "analyze_sales_reps", "analyze_sales_over_time",
      "get_comprehensive_report", "create_dashboard", "export_results">>

IsStep(e) == \E i \in DOMAIN ClaimedOrder : ClaimedOrder[i] = e
StepsDone == SelectSeq(log, IsStep)

\* C3: the steps run has taken are always an initial part of load, clean,
\* summary, the four analyses, combined report, visualization, export;
\* visualization and export happen only with a loaded table, a non-empty
\* cleaned dataset and all four analyses done; the success banner comes
\* right after export_results has returned.
C3_StepOrder ==
    /\ Len(StepsDone) <= Len(ClaimedOrder)
    /\ StepsDone = SubSeq(ClaimedOrder, 1, Len(StepsDone))
    /\ (InLog("create_dashboard") \/ InLog("export_results")) =>
          /\ raw_data = "DataFrame"
          /\ ~data.isNone /\ data.rows # <<>>
          /\ InLog("analyze_by_category") /\ InLog("analyze_by_region")
          /\ InLog("analyze_sales_reps") /\ InLog("analyze_sales_over_time")
    /\ InLog("success") =>
          /\ log[Len(log)] = "success"
          /\ log[Len(log) - 1] = "export_results returned"
          /\ InLog("create_dashboard")

\* A run that reached the banner through the CSV fallback.
C3_Witness == pc = "done" /\ InLog("success") /\ csv_calls >= 1

\* The groups of a table add up to the dataset.
AddsUp(table) ==
    /\ ColSum(table, "total_revenue") = ColSum(data.rows, "Sales_Amount")
    /\ ColSum(table, "transaction_count") = Len(data.rows)

\* C4: in each of the four analyses of one cleaned dataset, and in every
\* non-empty table of the combined report, the groups' total_revenue adds
\* up to the dataset's revenue and their transaction_count to its row count.
C4_GroupTotals ==
    /\ InLog("analyze_by_category") => AddsUp(category_analysis)
    /\ InLog("analyze_by_region") => AddsUp(region_analysis)
    /\ InLog("analyze_sales_reps") => AddsUp(rep_analysis)
    /\ InLog("analyze_sales_over_time") => AddsUp(time_analysis)
    /\ \A k \in DOMAIN comprehensive_report :
         comprehensive_report[k] # <<>> => AddsUp(comprehensive_report[k])

\* Two rows of one sales rep in two regions.
C4_Witness ==
    /\ InLog("analyze_sales_over_time")
    /\ Len(data.rows) >= 2
    /\ Len(rep_analysis) = 1
    /\ Len(region_analysis) = 2

\* Raw row i of table t was kept by the validator.
KeptRow(t, i) == Classify(t.rows[i], t.hasCost) # "REJECT"

\* Raw row i is the first kept row of t with its triple.
FirstOfTriple(t, i) ==
    /\ KeptRow(t, i)
    /\ \A j \in 1..(i - 1) : KeptRow(t, j) => Triple(t.rows[j]) # Triple(t.rows[i])

\* The cleaned row r holds the inputs of the raw row x.
SameInputs(r, x) ==
    /\ Triple(r) = Triple(x)
    /\ r.Quantity_Sold = x.Quantity_Sold.v
    /\ r.Unit_Price = x.Unit_Price.v
    /\ r.Discount = x.Discount.v

Deduplicated(t, rows, report) ==
    /\ \A i, j \in 1..Len(rows) : i # j => Triple(rows[i]) # Triple(rows[j])
    /\ \A i \in 1..Len(t.rows) :
         FirstOfTriple(t, i) => \E k \in 1..Len(rows) : SameInputs(rows[k], t.rows[i])
    /\ \A k \in 1..Len(rows) :
         \E i \in 1..Len(t.rows) : FirstOfTriple(t, i) /\ SameInputs(rows[k], t.rows[i])
    /\ report.duplicates_dropped =
          Cardinality({ i \in 1..Len(t.rows) : KeptRow(t, i) }) - Len(rows)

CleaningDeduplicates ==
    (pc = "clean_data" /\ error' = "")
        => Deduplicated(loader_table, data'.rows, cleaning_report')

\* C5: whenever clean_data hands back a dataset, no two of its rows share a
\* (product_id, sale_date, sales_rep) triple, its rows are exactly the
\* first kept raw row of each triple, and duplicates_dropped is the number
\* of kept rows the deduplication removed.
C5_Deduplication == [][CleaningDeduplicates]_vars

\* A cleaning that dropped a duplicate and kept a row.
C5_Witness ==
    /\ InLog("clean_data")
    /\ cleaning_report.duplicates_dropped >= 1
    /\ Len(data.rows) >= 1

\* The amount in cents a formatted figure reads as.
Cents(f) == (IF f.sign = "-" THEN -1 ELSE 1) * (f.whole * 100 + f.frac)

RowNamed(rows, n) == rows[CHOOSE i \in DOMAIN rows : rows[i].name = n]

TopLineWritten(rows) ==
    /\ Cents(RowNamed(rows, "total_revenue").amount[1])
          = ColSum(data.rows, "Sales_Amount")
    /\ Cents(RowNamed(rows, "total_profit").amount[1])
          = IF "Profit" \in data.columns THEN ColSum(data.rows, "Profit") ELSE 0
    /\ RowNamed(rows, "transactions").value[1] = Len(data.rows)

\* C6: the top-line figures of the Excel summary sheet and of the text
\* summary are the sum of Sales_Amount over the cleaned rows, the sum of
\* Profit (0 without a Profit column) and the number of cleaned rows.
C6_TopLineTotals ==
    /\ xlsx.summary # <<>> => TopLineWritten(xlsx.summary)
    /\ csv.summary_written => TopLineWritten(csv.summary)

\* Both summaries written for a dataset of two rows without a Profit column.
C6_Witness ==
    /\ xlsx.summary # <<>>
    /\ csv.summary_written
    /\ "Profit" \notin data.columns
    /\ Len(data.rows) >= 2

ExportPcs == {"export_results", "export_to_csv_inner", "export_to_csv_outer"}

\* What a step of the export leaves alone, and what it may raise.
ExportStepReadsOnly ==
    pc \in ExportPcs =>
       /\ comprehensive_report' = comprehensive_report
       /\ data' = data
       /\ (excel_raised' \notin {"", "ImportError", "OSError"} =>
             \E k \in DOMAIN comprehensive_report : comprehensive_report[k] = <<>>)
       /\ error' \in {"", "OSError"}

\* C7: no step of export_results or export_to_csv changes the combined
\* report or self.data, whether it succeeds, falls back or fails; and the
\* Excel attempt raises of itself (not by a missing engine or a write
\* error) only over an empty table in the report, never over a name that
\* is absent, as export_to_csv never does.
C7_ExportReadsOnly == [][ExportStepReadsOnly]_vars

\* An export of a report with no name at all that returned.
C7_Witness ==
    /\ InLog("export_results returned")
    /\ DOMAIN comprehensive_report = {}
    /\ excel_raised = ""
    /\ xlsx.on_disk

\* The invariants of a sales record; the amount is within half a cent of
\* unit_price * quantity * (1 - discount_pct / 100).
RecordInvariant(r) ==
    LET exact == r.Unit_Price * r.Quantity_Sold * (1000 - r.Discount)
    IN  /\ r.Quantity_Sold > 0
        /\ r.Discount >= 0 /\ r.Discount < 1000
        /\ r.Unit_Price >= 0
        /\ r.Sales_Amount >= 0
        /\ 2 * (1000 * r.Sales_Amount - exact) <= 1000
        /\ 2 * (exact - 1000 * r.Sales_Amount) <= 1000

\* C8: every row of the cleaned dataset and every record create_sample_data
\* generates satisfies the sales record invariants; every generated record
\* has Region_and_Sales_Rep = Region + "_" + Sales_Rep, and no two generated
\* records share a (Product_ID, Sale_Date, Sales_Rep) triple.
C8_RecordInvariants ==
    /\ \A i \in DOMAIN data.rows : RecordInvariant(data.rows[i])
    /\ \A i \in DOMAIN sample_df :
         /\ RecordInvariant(sample_df[i])
         /\ sample_df[i].Region_and_Sales_Rep
               = sample_df[i].Region \o "_" \o sample_df[i].Sales_Rep
    /\ \A i, j \in DOMAIN sample_df :
         i # j => Triple(sample_df[i]) # Triple(sample_df[j])

\* Generated records with a discount of 15.5 % on 50 units and one of 30 %.
C8_Witness ==
    /\ Len(sample_df) >= 2
    /\ \E i \in DOMAIN sample_df :
         sample_df[i].Discount = 155 /\ sample_df[i].Quantity_Sold = 50
    /\ \E i \in DOMAIN sample_df : sample_df[i].Discount = 300
    /\ sample_df[1].Sales_Rep = sample_df[2].Sales_Rep

\* s is a decimal numeral of n: its digits, after any leading zeros.
IsNumeral(s, n) == \E w \in 1..Len(s) : s = ZFill(ToString(n), w)

\* C9: get_file_path returns the n-th listed CSV file when the first answer
\* is a number n from 1 to the number of listed files; otherwise the path
\* entered, when that is not empty and exists, and None when it is empty or
\* does not exist.  A run without a path to which get_file_path returns
\* None ends without loading, cleaning, analysing, drawing or exporting.
C9_FilePathChoice ==
    /\ pc = "file_path_returned" =>
          IF \E n \in 1..Len(csv_files) : IsNumeral(choice, n)
          THEN \E n \in 1..Len(csv_files) :
                  IsNumeral(choice, n) /\ returned = csv_files[n]
          ELSE \/ returned = entered /\ entered # "" /\ entered \in ExistingPaths
               \/ returned = None /\ (entered = "" \/ entered \notin ExistingPaths)
    /\ (InLog("get_file_path") /\ pc # "file_path_returned" /\ Falsy(file_path)) =>
          /\ pc = "done"
          /\ ~InLog("load_csv") /\ ~InLog("clean_data")
          /\ raw_data = "None" /\ data = NoneData
          /\ NoResults

\* The answer "02" picked the second of two listed files.
C9_Witness ==
    /\ pc = "file_path_returned"
    /\ Len(csv_files) = 2
    /\ choice = "02"
    /\ returned = csv_files[2]

\* C10 as claimed: one call of export_results calls export_to_csv at most
\* once.
C10_CsvCalledAtMostOnce == csv_calls <= 1

====
